---- MODULE Spec2Model ----
(***************************************************************************)
(* A model of the `elf` crate: the class capabilities (Class32, Class64,   *)
(* Merge), the file header view at Raw and MinimalParse depth, the program *)
(* header entry view and the full-file validator ElfFile::parse.           *)
(*                                                                         *)
(* A byte buffer is a sequence of numbers in 0..255; rust offsets are      *)
(* 0-based, so byte `off` of `data` is data[off + 1].  Scalars wider than  *)
(* 16 bits are kept as their base-256 digits, most significant first, so   *)
(* that a u32 or u64 never has to fit a TLC integer.                       *)
(*                                                                         *)
(* ident.rs, encoding.rs and class.rs are not among the sources; the       *)
(* definitions that stand for them follow the prose specification (4.2,    *)
(* 4.3, 6) and say so.  lib.rs calls ElfHeader::parse, which header.rs no  *)
(* longer defines; following 4.6 step 1 it is the MinimalParse             *)
(* construction (the From impl of lib.rs still lists only the three error  *)
(* variants of the older constructor).                                     *)
(***************************************************************************)
EXTENDS Integers, Sequences, FiniteSets, TLC

VARIABLES
    bytes,   \* the caller's buffer, the `slice` handed to every constructor
    pokes,   \* how many of its MaxPokes edits the buffer has had
    res,     \* the last constructor call: its name, its type parameters, its outcome
    acc      \* the accessor values read off the held view, and how many times

vars == <<bytes, pokes, res, acc>>

\* The number of edits applied to a well-formed header to obtain an input.
MaxPokes == 2

\* The number of times a held view is read before it is let go.
MaxReads == 2

----------------------------------------------------------------------------
(* Identification block (ident.rs, after 4.3 and 6 of the specification).  *)

IDENT_SIZE == 16
MAGIC_BYTES == <<127, 69, 76, 70>>
CURRENT_HEADER_VERSION == 1
CLASS32 == 1
CLASS64 == 2
LSB2 == 1
MSB2 == 2
PaddingStart == 7

\* The byte at 0-based offset `off`; -1 stands for the panic of an
\* out-of-bounds index.
At(data, off) == IF off >= 0 /\ off < Len(data) THEN data[off + 1] ELSE -1

Slice(data, from, to) == [i \in 1..(to - from) |-> At(data, from + i - 1)]

Ok(v) == [ok |-> TRUE, err |-> <<>>, val |-> v]
Err(e) == [ok |-> FALSE, err |-> e, val |-> <<>>]

ident_magic(slice) == Slice(slice, 0, 4)
ident_class(slice) == At(slice, 4)
ident_encoding(slice) == At(slice, 5)
ident_header_version(slice) == At(slice, 6)
ident_padding(slice) == Slice(slice, PaddingStart, IDENT_SIZE)

\* ElfIdent::new: a raw identification view needs 16 bytes and nothing else.
ElfIdent_new(slice) == Len(slice) >= IDENT_SIZE

\* ElfIdent::minimal_parse: additionally the class and encoding tags must be
\* ones the format defines.
ElfIdent_minimal_parse(slice) ==
    IF Len(slice) < IDENT_SIZE THEN Err(<<"TooSmall">>)
    ELSE IF ident_class(slice) \notin {CLASS32, CLASS64}
        THEN Err(<<"UnsupportedClass", ident_class(slice)>>)
    ELSE IF ident_encoding(slice) \notin {LSB2, MSB2}
        THEN Err(<<"UnsupportedEncoding", ident_encoding(slice)>>)
    ELSE Ok(slice)

----------------------------------------------------------------------------
(* Encoding capability (encoding.rs, after 4.2 of the specification).      *)

LittleEndian == "LittleEndian"
BigEndian == "BigEndian"
AnyEndian == "AnyEndian"
EncodingCaps == {LittleEndian, BigEndian, AnyEndian}

from_elf_encoding(E, tag) ==
    IF tag = LSB2 /\ E \in {LittleEndian, AnyEndian} THEN Ok(LittleEndian)
    ELSE IF tag = MSB2 /\ E \in {BigEndian, AnyEndian} THEN Ok(BigEndian)
    ELSE Err(<<"UnsupportedEncoding", tag>>)

Reverse(s) == [i \in 1..Len(s) |-> s[Len(s) + 1 - i]]

\* The digits of the `width`-byte scalar at `offset`, most significant first.
parse_digits_at(encoding, width, offset, data) ==
    IF encoding = BigEndian THEN Slice(data, offset, offset + width)
    ELSE Reverse(Slice(data, offset, offset + width))

parse_u16_at(encoding, offset, data) ==
    LET d == parse_digits_at(encoding, 2, offset, data)
    IN IF d[1] < 0 \/ d[2] < 0 THEN -1 ELSE 256 * d[1] + d[2]

parse_u32_at(encoding, offset, data) == parse_digits_at(encoding, 4, offset, data)

parse_u64_at(encoding, offset, data) == parse_digits_at(encoding, 8, offset, data)

----------------------------------------------------------------------------
(* Class capabilities: class_32.rs, class_64.rs, merge.rs.                 *)

Class32 == <<"Class32">>
Class64 == <<"Class64">>
Merge(A, B) == <<"Merge", A, B>>
\* The two variants of a Merge value; each remembers the Merge type it is of.
MergeA(a, A, B) == <<"A", a, Merge(A, B)>>
MergeB(b, A, B) == <<"B", b, Merge(A, B)>>

IsMerge(C) == C[1] = "Merge"
IsArm(c) == c[1] \in {"A", "B"}

\* The capability a resolved Merge value dispatches to.
Arm(c) == c[2]
RECURSIVE Leaf(_)
Leaf(c) == IF IsArm(c) THEN Leaf(Arm(c)) ELSE c

\* Class32::from_elf_class reporting the class it wanted, not the one it got.
Class32_from_elf_class_wanted(class) ==
    IF class # CLASS32 THEN Err(<<"UnsupportedClass", CLASS32>>) ELSE Ok(Class32)

Class32_from_elf_class(class) ==
    IF class # CLASS32 THEN Err(<<"UnsupportedClass", class>>) ELSE Ok(Class32)

Class64_from_elf_class(class) ==
    IF class # CLASS64 THEN Err(<<"UnsupportedClass", class>>) ELSE Ok(Class64)

RECURSIVE from_elf_class(_, _)

\* Merge::from_elf_class trying B before A.
Merge_from_elf_class_b_first(A, B, class) ==
    LET b == from_elf_class(B, class)
    IN IF b.ok THEN Ok(MergeB(b.val, A, B))
       ELSE LET a == from_elf_class(A, class)
            IN IF a.ok THEN Ok(MergeA(a.val, A, B)) ELSE b

Merge_from_elf_class(A, B, class) ==
    LET a == from_elf_class(A, class)
    IN IF a.ok THEN Ok(MergeA(a.val, A, B))
       ELSE LET b == from_elf_class(B, class)
            IN IF b.ok THEN Ok(MergeB(b.val, A, B)) ELSE b

from_elf_class(C, class) ==
    IF C = Class32 THEN Class32_from_elf_class(class)
    ELSE IF C = Class64 THEN Class64_from_elf_class(class)
    ELSE Merge_from_elf_class(C[2], C[3], class)

\* Field offsets of Elf32Header and Elf64Header (repr(C), a 16-byte
\* identifier first).
\* The 32-bit header with the two table offsets in each other's place.
Elf32Header_tables_swapped ==
    [elf_type |-> 16, machine |-> 18, file_version |-> 20, entry |-> 24,
     program_header_offset |-> 32, section_header_offset |-> 28, flags |-> 36,
     header_size |-> 40, program_header_size |-> 42, program_header_count |-> 44,
     section_header_size |-> 46, section_header_count |-> 48,
     section_header_string_table_index |-> 50]

Elf32Header ==
    [elf_type |-> 16, machine |-> 18, file_version |-> 20, entry |-> 24,
     program_header_offset |-> 28, section_header_offset |-> 32, flags |-> 36,
     header_size |-> 40, program_header_size |-> 42, program_header_count |-> 44,
     section_header_size |-> 46, section_header_count |-> 48,
     section_header_string_table_index |-> 50]

Elf64Header ==
    [elf_type |-> 16, machine |-> 18, file_version |-> 20, entry |-> 24,
     program_header_offset |-> 32, section_header_offset |-> 40, flags |-> 48,
     header_size |-> 52, program_header_size |-> 54, program_header_count |-> 56,
     section_header_size |-> 58, section_header_count |-> 60,
     section_header_string_table_index |-> 62]

Elf32HeaderSize == 52
Elf64HeaderSize == 64

Elf32ProgramHeader ==
    [segment_type |-> 0, file_offset |-> 4, virtual_address |-> 8,
     physical_address |-> 12, file_size |-> 16, memory_size |-> 20,
     flags |-> 24, alignment |-> 28]

\* The 64-bit entry with its flags where the 32-bit entry has them, after
\* memory_size.
Elf64ProgramHeader_flags_late ==
    [segment_type |-> 0, file_offset |-> 8, virtual_address |-> 16,
     physical_address |-> 24, file_size |-> 32, memory_size |-> 40,
     flags |-> 48, alignment |-> 52]

Elf64ProgramHeader ==
    [segment_type |-> 0, flags |-> 4, file_offset |-> 8, virtual_address |-> 16,
     physical_address |-> 24, file_size |-> 32, memory_size |-> 40,
     alignment |-> 48]

Elf32ProgramHeaderSize == 32
Elf64ProgramHeaderSize == 56

\* The ClassParseElfHeader offset accessors: Class32 and Class64 read their
\* struct, a Merge value asks the arm it holds.
header_offset(class, f) ==
    IF Leaf(class) = Class32 THEN Elf32Header[f] ELSE Elf64Header[f]

expected_elf_header_size(class) ==
    IF Leaf(class) = Class32 THEN Elf32HeaderSize ELSE Elf64HeaderSize

\* merge.rs has no ClassParseProgramHeader impl; a Merge value asks the arm
\* it holds, as it does for the header (4.1).
RECURSIVE expected_program_header_size(_)
Merge_expected_program_header_size(class) == expected_program_header_size(Arm(class))

expected_program_header_size(class) ==
    IF IsArm(class) THEN Merge_expected_program_header_size(class)
    ELSE IF class = Class32 THEN Elf32ProgramHeaderSize
    ELSE Elf64ProgramHeaderSize

\* The width in bytes of the ClassUsize of a capability type: u32, u64, and
\* for Merge<A, B> that of B.
RECURSIVE ClassUsizeWidth(_)
ClassUsizeWidth(C) ==
    IF C = Class32 THEN 4 ELSE IF C = Class64 THEN 8 ELSE ClassUsizeWidth(C[3])

\* B::ClassUsize::from: an unsigned value widened to `width` bytes.
WidenUnsigned(digits, width) == [i \in 1..(width - Len(digits)) |-> 0] \o digits

RECURSIVE parse_class_usize_at(_, _, _, _)
Merge_parse_class_usize_at(class, encoding, offset, data) ==
    IF class[1] = "A"
        THEN WidenUnsigned(parse_class_usize_at(class[2], encoding, offset, data),
                           ClassUsizeWidth(class[3]))
    ELSE parse_class_usize_at(class[2], encoding, offset, data)

parse_class_usize_at(class, encoding, offset, data) ==
    IF class = Class32 THEN parse_u32_at(encoding, offset, data)
    ELSE IF class = Class64 THEN parse_u64_at(encoding, offset, data)
    ELSE Merge_parse_class_usize_at(class, encoding, offset, data)

\* Signed scalars are kept as their two's-complement digits, most significant
\* first: the value is negative when the first digit is 128 or more.
parse_i32_at(encoding, offset, data) == parse_digits_at(encoding, 4, offset, data)

parse_i64_at(encoding, offset, data) == parse_digits_at(encoding, 8, offset, data)

\* B::ClassIsize::from: a signed value widened to `width` bytes keeps its sign.
WidenSigned(digits, width) ==
    [i \in 1..(width - Len(digits)) |-> IF digits[1] >= 128 THEN 255 ELSE 0] \o digits

RECURSIVE parse_class_isize_at(_, _, _, _)
\* The signed arm widened as if it were unsigned.
Merge_parse_class_isize_at_zero_extends(class, encoding, offset, data) ==
    IF class[1] = "A"
        THEN WidenUnsigned(parse_class_isize_at(class[2], encoding, offset, data),
                           ClassUsizeWidth(class[3]))
    ELSE parse_class_isize_at(class[2], encoding, offset, data)

Merge_parse_class_isize_at(class, encoding, offset, data) ==
    IF class[1] = "A"
        THEN WidenSigned(parse_class_isize_at(class[2], encoding, offset, data),
                         ClassUsizeWidth(class[3]))
    ELSE parse_class_isize_at(class[2], encoding, offset, data)

parse_class_isize_at(class, encoding, offset, data) ==
    IF class = Class32 THEN parse_i32_at(encoding, offset, data)
    ELSE IF class = Class64 THEN parse_i64_at(encoding, offset, data)
    ELSE Merge_parse_class_isize_at(class, encoding, offset, data)

----------------------------------------------------------------------------
(* File header view: header.rs.                                            *)

View(slice, class, encoding) == [bytes |-> slice, class |-> class, encoding |-> encoding]

header_size(h) == parse_u16_at(h.encoding, header_offset(h.class, "header_size"), h.bytes)

program_header_size(h) ==
    parse_u16_at(h.encoding, header_offset(h.class, "program_header_size"), h.bytes)

file_version(h) == parse_u32_at(h.encoding, header_offset(h.class, "file_version"), h.bytes)

\* The accessors of the header view, by the decoder each of them calls.
HeaderFields == DOMAIN Elf32Header
HeaderU32Fields == {"file_version", "flags"}
HeaderUsizeFields == {"entry", "program_header_offset", "section_header_offset"}

header_field(h, f) ==
    IF f \in HeaderUsizeFields
        THEN parse_class_usize_at(h.class, h.encoding, header_offset(h.class, f), h.bytes)
    ELSE IF f \in HeaderU32Fields
        THEN parse_u32_at(h.encoding, header_offset(h.class, f), h.bytes)
    ELSE parse_u16_at(h.encoding, header_offset(h.class, f), h.bytes)

\* ElfHeader::identifier: the first 16 bytes, unreachable!() (<<-1>>) without them.
identifier(h) ==
    IF Len(h.bytes) >= IDENT_SIZE THEN SubSeq(h.bytes, 1, IDENT_SIZE) ELSE <<-1>>

\* ElfHeader::<C, E, Raw>::new without the check of the slice against the
\* class's header size.
new_ident_only(C, E, slice) ==
    IF ~ElfIdent_new(slice) THEN Err(<<"TooSmall">>)
    ELSE LET class == from_elf_class(C, ident_class(slice))
         IN IF ~class.ok THEN Err(class.err)
         ELSE LET encoding == from_elf_encoding(E, ident_encoding(slice))
              IN IF ~encoding.ok THEN Err(encoding.err)
              ELSE Ok(View(slice, class.val, encoding.val))

\* ElfHeader::<C, E, Raw>::new resolving the class before it looks at the
\* length of the slice.
new_class_first(C, E, slice) ==
    LET class == from_elf_class(C, ident_class(slice))
    IN IF ~class.ok THEN Err(class.err)
    ELSE IF ~ElfIdent_new(slice) THEN Err(<<"TooSmall">>)
    ELSE LET encoding == from_elf_encoding(E, ident_encoding(slice))
         IN IF ~encoding.ok THEN Err(encoding.err)
         ELSE IF Len(slice) < expected_elf_header_size(class.val)
             THEN Err(<<"TooSmall">>)
         ELSE Ok(View(slice, class.val, encoding.val))

\* ElfHeader::<C, E, Raw>::new checking the declared header_size as
\* minimal_parse does.
new_checks_header_size(C, E, slice) ==
    IF ~ElfIdent_new(slice) THEN Err(<<"TooSmall">>)
    ELSE LET class == from_elf_class(C, ident_class(slice))
         IN IF ~class.ok THEN Err(class.err)
         ELSE LET encoding == from_elf_encoding(E, ident_encoding(slice))
              IN IF ~encoding.ok THEN Err(encoding.err)
              ELSE IF Len(slice) < expected_elf_header_size(class.val)
                  THEN Err(<<"TooSmall">>)
              ELSE IF header_size(View(slice, class.val, encoding.val))
                          < expected_elf_header_size(class.val)
                  THEN Err(<<"TooSmall">>)
              ELSE Ok(View(slice, class.val, encoding.val))

\* ElfHeader::<C, E, Raw>::new
\* Raw construction taking only a buffer of exactly the header's size.
new_exact_length(C, E, slice) ==
    IF ~ElfIdent_new(slice) THEN Err(<<"TooSmall">>)
    ELSE LET class == from_elf_class(C, ident_class(slice))
         IN IF ~class.ok THEN Err(class.err)
         ELSE LET encoding == from_elf_encoding(E, ident_encoding(slice))
              IN IF ~encoding.ok THEN Err(encoding.err)
              ELSE IF Len(slice) # expected_elf_header_size(class.val)
                  THEN Err(<<"TooSmall">>)
              ELSE Ok(View(slice, class.val, encoding.val))

\* Raw construction resolving the encoding before the class.
new_encoding_first(C, E, slice) ==
    IF ~ElfIdent_new(slice) THEN Err(<<"TooSmall">>)
    ELSE LET encoding == from_elf_encoding(E, ident_encoding(slice))
         IN IF ~encoding.ok THEN Err(encoding.err)
         ELSE LET class == from_elf_class(C, ident_class(slice))
              IN IF ~class.ok THEN Err(class.err)
              ELSE IF Len(slice) < expected_elf_header_size(class.val)
                  THEN Err(<<"TooSmall">>)
              ELSE Ok(View(slice, class.val, encoding.val))

new(C, E, slice) ==
    IF ~ElfIdent_new(slice) THEN Err(<<"TooSmall">>)
    ELSE LET class == from_elf_class(C, ident_class(slice))
         IN IF ~class.ok THEN Err(class.err)
         ELSE LET encoding == from_elf_encoding(E, ident_encoding(slice))
              IN IF ~encoding.ok THEN Err(encoding.err)
              ELSE IF Len(slice) < expected_elf_header_size(class.val)
                  THEN Err(<<"TooSmall">>)
              ELSE Ok(View(slice, class.val, encoding.val))

\* minimal_parse comparing the declared header_size with `<=`.
minimal_parse_le(C, E, slice) ==
    LET ident == ElfIdent_minimal_parse(slice)
    IN IF ~ident.ok THEN Err(<<"IdentError", ident.err>>)
    ELSE LET class == from_elf_class(C, ident_class(slice))
         IN IF ~class.ok THEN Err(class.err)
         ELSE LET encoding == from_elf_encoding(E, ident_encoding(slice))
              IN IF ~encoding.ok THEN Err(encoding.err)
              ELSE IF Len(slice) < expected_elf_header_size(class.val)
                  THEN Err(<<"TooSmall">>)
              ELSE LET header == View(slice, class.val, encoding.val)
                   IN IF header_size(header) <= expected_elf_header_size(class.val)
                          THEN Err(<<"InvalidElfHeaderSize">>)
                      ELSE Ok(header)

\* minimal_parse accepting only the exact header size.
minimal_parse_exact(C, E, slice) ==
    LET ident == ElfIdent_minimal_parse(slice)
    IN IF ~ident.ok THEN Err(<<"IdentError", ident.err>>)
    ELSE LET class == from_elf_class(C, ident_class(slice))
         IN IF ~class.ok THEN Err(class.err)
         ELSE LET encoding == from_elf_encoding(E, ident_encoding(slice))
              IN IF ~encoding.ok THEN Err(encoding.err)
              ELSE IF Len(slice) < expected_elf_header_size(class.val)
                  THEN Err(<<"TooSmall">>)
              ELSE LET header == View(slice, class.val, encoding.val)
                   IN IF header_size(header) # expected_elf_header_size(class.val)
                          THEN Err(<<"InvalidElfHeaderSize">>)
                      ELSE Ok(header)

\* MinimalParse construction that leaves the declared header_size unread.
minimal_parse_size_unread(C, E, slice) ==
    LET ident == ElfIdent_minimal_parse(slice)
    IN IF ~ident.ok THEN Err(<<"IdentError", ident.err>>)
    ELSE LET class == from_elf_class(C, ident_class(slice))
         IN IF ~class.ok THEN Err(class.err)
         ELSE LET encoding == from_elf_encoding(E, ident_encoding(slice))
              IN IF ~encoding.ok THEN Err(encoding.err)
              ELSE IF Len(slice) < expected_elf_header_size(class.val)
                  THEN Err(<<"TooSmall">>)
              ELSE Ok(View(slice, class.val, encoding.val))

\* ElfHeader::<C, E, MinimalParse>::minimal_parse
minimal_parse(C, E, slice) ==
    LET ident == ElfIdent_minimal_parse(slice)
    IN IF ~ident.ok THEN Err(<<"IdentError", ident.err>>)
    ELSE LET class == from_elf_class(C, ident_class(slice))
         IN IF ~class.ok THEN Err(class.err)
         ELSE LET encoding == from_elf_encoding(E, ident_encoding(slice))
              IN IF ~encoding.ok THEN Err(encoding.err)
              ELSE IF Len(slice) < expected_elf_header_size(class.val)
                  THEN Err(<<"TooSmall">>)
              ELSE LET header == View(slice, class.val, encoding.val)
                   IN IF header_size(header) < expected_elf_header_size(class.val)
                          THEN Err(<<"InvalidElfHeaderSize">>)
                      ELSE Ok(header)

----------------------------------------------------------------------------
(* Full-file validation: lib.rs.                                           *)

CURRENT_FILE_VERSION == <<0, 0, 0, 1>>

\* The From impl with an unsupported encoding reported as an unsupported
\* class.
FromParseElfHeaderError_collapses(value) ==
    CASE value[1] = "UnsupportedClass" -> value
      [] value[1] = "UnsupportedEncoding" -> <<"UnsupportedClass", value[2]>>
      [] value[1] = "TooSmall" -> <<"TooSmallForHeader">>

\* impl From<ParseElfHeaderError> for ParseElfFileError
FromParseElfHeaderError(value) ==
    CASE value[1] = "UnsupportedClass" -> value
      [] value[1] = "UnsupportedEncoding" -> value
      [] value[1] = "TooSmall" -> <<"TooSmallForHeader">>

\* The header construction ElfFile::parse starts with (4.6 step 1).
ElfHeader_parse(C, E, slice) == minimal_parse(C, E, slice)

\* The `?` on that construction: an identification error and
\* InvalidElfHeaderSize are propagated (4.6 step 1), the rest goes through the
\* From impl.
PropagateHeaderError(e) ==
    IF e[1] = "IdentError" THEN FromParseElfHeaderError(e[2])
    ELSE IF e[1] = "InvalidElfHeaderSize" THEN <<"InvalidElfHeaderSize">>
    ELSE FromParseElfHeaderError(e)

\* ElfFile::parse without the magic check.
parse_no_magic(C, E, slice) ==
    LET elf_header == ElfHeader_parse(C, E, slice)
    IN IF ~elf_header.ok THEN Err(PropagateHeaderError(elf_header.err))
    ELSE LET h == elf_header.val
         IN IF ident_header_version(h.bytes) # CURRENT_HEADER_VERSION
             THEN Err(<<"UnsupportedElfHeaderVersion">>)
         ELSE IF ~(\A i \in 1..Len(ident_padding(h.bytes)) : ident_padding(h.bytes)[i] = 0)
             THEN Err(<<"NonZeroPadding">>)
         ELSE IF file_version(h) # CURRENT_FILE_VERSION
             THEN Err(<<"UnsupportedElfFileVersion">>)
         ELSE IF header_size(h) < expected_elf_header_size(h.class)
             THEN Err(<<"InvalidElfHeaderSize">>)
         ELSE IF program_header_size(h) < expected_program_header_size(h.class)
             THEN Err(<<"InvalidProgramHeaderSize">>)
         ELSE Ok(View(slice, h.class, h.encoding))

\* ElfFile::parse with the padding check moved behind the file_version check.
parse_padding_late(C, E, slice) ==
    LET elf_header == ElfHeader_parse(C, E, slice)
    IN IF ~elf_header.ok THEN Err(PropagateHeaderError(elf_header.err))
    ELSE LET h == elf_header.val
         IN IF ident_magic(h.bytes) # MAGIC_BYTES THEN Err(<<"InvalidMagicBytes">>)
         ELSE IF ident_header_version(h.bytes) # CURRENT_HEADER_VERSION
             THEN Err(<<"UnsupportedElfHeaderVersion">>)
         ELSE IF file_version(h) # CURRENT_FILE_VERSION
             THEN Err(<<"UnsupportedElfFileVersion">>)
         ELSE IF ~(\A i \in 1..Len(ident_padding(h.bytes)) : ident_padding(h.bytes)[i] = 0)
             THEN Err(<<"NonZeroPadding">>)
         ELSE IF header_size(h) < expected_elf_header_size(h.class)
             THEN Err(<<"InvalidElfHeaderSize">>)
         ELSE IF program_header_size(h) < expected_program_header_size(h.class)
             THEN Err(<<"InvalidProgramHeaderSize">>)
         ELSE Ok(View(slice, h.class, h.encoding))

\* ElfFile::parse with the padding check moved in front of the magic check.
parse_padding_first(C, E, slice) ==
    LET elf_header == ElfHeader_parse(C, E, slice)
    IN IF ~elf_header.ok THEN Err(PropagateHeaderError(elf_header.err))
    ELSE LET h == elf_header.val
         IN IF ~(\A i \in 1..Len(ident_padding(h.bytes)) : ident_padding(h.bytes)[i] = 0)
             THEN Err(<<"NonZeroPadding">>)
         ELSE IF ident_magic(h.bytes) # MAGIC_BYTES THEN Err(<<"InvalidMagicBytes">>)
         ELSE IF ident_header_version(h.bytes) # CURRENT_HEADER_VERSION
             THEN Err(<<"UnsupportedElfHeaderVersion">>)
         ELSE IF file_version(h) # CURRENT_FILE_VERSION
             THEN Err(<<"UnsupportedElfFileVersion">>)
         ELSE IF header_size(h) < expected_elf_header_size(h.class)
             THEN Err(<<"InvalidElfHeaderSize">>)
         ELSE IF program_header_size(h) < expected_program_header_size(h.class)
             THEN Err(<<"InvalidProgramHeaderSize">>)
         ELSE Ok(View(slice, h.class, h.encoding))

\* ElfFile::parse asking for an entry size larger than the expected one.
parse_entry_size_strict(C, E, slice) ==
    LET elf_header == ElfHeader_parse(C, E, slice)
    IN IF ~elf_header.ok THEN Err(PropagateHeaderError(elf_header.err))
    ELSE LET h == elf_header.val
         IN IF ident_magic(h.bytes) # MAGIC_BYTES THEN Err(<<"InvalidMagicBytes">>)
         ELSE IF ident_header_version(h.bytes) # CURRENT_HEADER_VERSION
             THEN Err(<<"UnsupportedElfHeaderVersion">>)
         ELSE IF ~(\A i \in 1..Len(ident_padding(h.bytes)) : ident_padding(h.bytes)[i] = 0)
             THEN Err(<<"NonZeroPadding">>)
         ELSE IF file_version(h) # CURRENT_FILE_VERSION
             THEN Err(<<"UnsupportedElfFileVersion">>)
         ELSE IF header_size(h) < expected_elf_header_size(h.class)
             THEN Err(<<"InvalidElfHeaderSize">>)
         ELSE IF program_header_size(h) <= expected_program_header_size(h.class)
             THEN Err(<<"InvalidProgramHeaderSize">>)
         ELSE Ok(View(slice, h.class, h.encoding))

\* ElfFile::parse with the section header entry size checked as the program
\* header entry size is, against the sizes 40 and 64 of a section header.
parse_checks_section_header_size(C, E, slice) ==
    LET elf_header == ElfHeader_parse(C, E, slice)
    IN IF ~elf_header.ok THEN Err(PropagateHeaderError(elf_header.err))
    ELSE LET h == elf_header.val
         IN IF ident_magic(h.bytes) # MAGIC_BYTES THEN Err(<<"InvalidMagicBytes">>)
         ELSE IF ident_header_version(h.bytes) # CURRENT_HEADER_VERSION
             THEN Err(<<"UnsupportedElfHeaderVersion">>)
         ELSE IF ~(\A i \in 1..Len(ident_padding(h.bytes)) : ident_padding(h.bytes)[i] = 0)
             THEN Err(<<"NonZeroPadding">>)
         ELSE IF file_version(h) # CURRENT_FILE_VERSION
             THEN Err(<<"UnsupportedElfFileVersion">>)
         ELSE IF header_size(h) < expected_elf_header_size(h.class)
             THEN Err(<<"InvalidElfHeaderSize">>)
         ELSE IF program_header_size(h) < expected_program_header_size(h.class)
             THEN Err(<<"InvalidProgramHeaderSize">>)
         ELSE IF header_field(h, "section_header_size")
                     < (IF Leaf(h.class) = Class32 THEN 40 ELSE 64)
             THEN Err(<<"InvalidSectionHeaderSize">>)
         ELSE Ok(View(slice, h.class, h.encoding))

\* ElfFile::parse checking the entry size only of a file that has program
\* headers.
parse_entry_size_if_any(C, E, slice) ==
    LET elf_header == ElfHeader_parse(C, E, slice)
    IN IF ~elf_header.ok THEN Err(PropagateHeaderError(elf_header.err))
    ELSE LET h == elf_header.val
         IN IF ident_magic(h.bytes) # MAGIC_BYTES THEN Err(<<"InvalidMagicBytes">>)
         ELSE IF ident_header_version(h.bytes) # CURRENT_HEADER_VERSION
             THEN Err(<<"UnsupportedElfHeaderVersion">>)
         ELSE IF ~(\A i \in 1..Len(ident_padding(h.bytes)) : ident_padding(h.bytes)[i] = 0)
             THEN Err(<<"NonZeroPadding">>)
         ELSE IF file_version(h) # CURRENT_FILE_VERSION
             THEN Err(<<"UnsupportedElfFileVersion">>)
         ELSE IF header_size(h) < expected_elf_header_size(h.class)
             THEN Err(<<"InvalidElfHeaderSize">>)
         ELSE IF /\ header_field(h, "program_header_count") > 0
                 /\ program_header_size(h) < expected_program_header_size(h.class)
             THEN Err(<<"InvalidProgramHeaderSize">>)
         ELSE Ok(View(slice, h.class, h.encoding))

\* ElfFile::parse refusing a header_size that reaches beyond the buffer.
parse_header_within_buffer(C, E, slice) ==
    LET elf_header == ElfHeader_parse(C, E, slice)
    IN IF ~elf_header.ok THEN Err(PropagateHeaderError(elf_header.err))
    ELSE LET h == elf_header.val
         IN IF ident_magic(h.bytes) # MAGIC_BYTES THEN Err(<<"InvalidMagicBytes">>)
         ELSE IF ident_header_version(h.bytes) # CURRENT_HEADER_VERSION
             THEN Err(<<"UnsupportedElfHeaderVersion">>)
         ELSE IF ~(\A i \in 1..Len(ident_padding(h.bytes)) : ident_padding(h.bytes)[i] = 0)
             THEN Err(<<"NonZeroPadding">>)
         ELSE IF file_version(h) # CURRENT_FILE_VERSION
             THEN Err(<<"UnsupportedElfFileVersion">>)
         ELSE IF \/ header_size(h) < expected_elf_header_size(h.class)
                 \/ header_size(h) > Len(slice)
             THEN Err(<<"InvalidElfHeaderSize">>)
         ELSE IF program_header_size(h) < expected_program_header_size(h.class)
             THEN Err(<<"InvalidProgramHeaderSize">>)
         ELSE Ok(View(slice, h.class, h.encoding))

\* ElfFile::parse
parse(C, E, slice) ==
    LET elf_header == ElfHeader_parse(C, E, slice)
    IN IF ~elf_header.ok THEN Err(PropagateHeaderError(elf_header.err))
    ELSE LET h == elf_header.val
         IN IF ident_magic(h.bytes) # MAGIC_BYTES THEN Err(<<"InvalidMagicBytes">>)
         ELSE IF ident_header_version(h.bytes) # CURRENT_HEADER_VERSION
             THEN Err(<<"UnsupportedElfHeaderVersion">>)
         ELSE IF ~(\A i \in 1..Len(ident_padding(h.bytes)) : ident_padding(h.bytes)[i] = 0)
             THEN Err(<<"NonZeroPadding">>)
         ELSE IF file_version(h) # CURRENT_FILE_VERSION
             THEN Err(<<"UnsupportedElfFileVersion">>)
         ELSE IF header_size(h) < expected_elf_header_size(h.class)
             THEN Err(<<"InvalidElfHeaderSize">>)
         ELSE IF program_header_size(h) < expected_program_header_size(h.class)
             THEN Err(<<"InvalidProgramHeaderSize">>)
         ELSE Ok(View(slice, h.class, h.encoding))

\* The view of a file handed out in little-endian order whatever the file's.
header_little_endian(file) == View(file.bytes, file.class, LittleEndian)

\* ElfFile::header
header(file) == View(file.bytes, file.class, file.encoding)

\* ElfType::EXECUTABLE and Machine::X86_64.
EXECUTABLE == 2
X86_64 == 62

\* fmt::Debug for ElfHeader: the value of every accessor of the view.
fmt(h) == [f \in HeaderFields |-> header_field(h, f)]

----------------------------------------------------------------------------
(* Program header entry view: program_header.rs.                           *)

\* RawProgramHeader::parse turning down a slice of exactly the entry size.
program_header_parse_strict(class, encoding, slice) ==
    IF Len(slice) <= expected_program_header_size(class) THEN Err(<<"None">>)
    ELSE Ok(View(slice, class, encoding))

\* RawProgramHeader::parse; None is the failed outcome.
program_header_parse(class, encoding, slice) ==
    IF Len(slice) < expected_program_header_size(class) THEN Err(<<"None">>)
    ELSE Ok(View(slice, class, encoding))

\* The ClassParseProgramHeader offset accessors.
segment_offset(class, f) ==
    IF Leaf(class) = Class32 THEN Elf32ProgramHeader[f] ELSE Elf64ProgramHeader[f]

\* The accessors of the entry view: segment_type and flags decode a u32, the
\* others a class-sized value.
ProgramHeaderFields == DOMAIN Elf32ProgramHeader

program_header_field(ph, f) ==
    IF f \in {"segment_type", "flags"}
        THEN parse_u32_at(ph.encoding, segment_offset(ph.class, f), ph.bytes)
    ELSE parse_class_usize_at(ph.class, ph.encoding, segment_offset(ph.class, f), ph.bytes)

----------------------------------------------------------------------------
(* Inputs: well-formed headers of the four layouts, then edited.           *)

EncodeU16(encodingTag, v) ==
    IF encodingTag = MSB2 THEN <<v \div 256, v % 256>> ELSE <<v % 256, v \div 256>>

EncodeDigits(encodingTag, digits) ==
    IF encodingTag = MSB2 THEN digits ELSE Reverse(digits)

Zeros(n) == [i \in 1..n |-> 0]

\* A class-sized value below 2^16.
EncodeUsize(classTag, encodingTag, v) ==
    EncodeDigits(encodingTag,
                 Zeros(IF classTag = CLASS32 THEN 2 ELSE 6) \o <<v \div 256, v % 256>>)

\* The digits of a class-sized value below 2^16.
WideDigits(classTag, v) ==
    Zeros(IF classTag = CLASS32 THEN 2 ELSE 6) \o <<v \div 256, v % 256>>

\* A header written field by field in its canonical on-disk order: the
\* identification block, then elf_type, machine, file_version, entry,
\* program_header_offset, section_header_offset, flags, header_size,
\* program_header_size, program_header_count, section_header_size,
\* section_header_count, section_header_string_table_index. The 16-bit
\* fields of `fv` are numbers, the others digits, most significant first.
EncodeHeader(classTag, encodingTag, fv) ==
    MAGIC_BYTES \o <<classTag, encodingTag, CURRENT_HEADER_VERSION>> \o Zeros(9)
    \o EncodeU16(encodingTag, fv.elf_type) \o EncodeU16(encodingTag, fv.machine)
    \o EncodeDigits(encodingTag, fv.file_version)
    \o EncodeDigits(encodingTag, fv.entry)
    \o EncodeDigits(encodingTag, fv.program_header_offset)
    \o EncodeDigits(encodingTag, fv.section_header_offset)
    \o EncodeDigits(encodingTag, fv.flags)
    \o EncodeU16(encodingTag, fv.header_size)
    \o EncodeU16(encodingTag, fv.program_header_size)
    \o EncodeU16(encodingTag, fv.program_header_count)
    \o EncodeU16(encodingTag, fv.section_header_size)
    \o EncodeU16(encodingTag, fv.section_header_count)
    \o EncodeU16(encodingTag, fv.section_header_string_table_index)

\* elf_type = Executable, machine = X86_64, one program header right after
\* the header, no sections.
WellFormedFields(classTag) ==
    LET ehs == IF classTag = CLASS32 THEN Elf32HeaderSize ELSE Elf64HeaderSize
        phs == IF classTag = CLASS32 THEN Elf32ProgramHeaderSize ELSE Elf64ProgramHeaderSize
    IN [elf_type |-> 2, machine |-> 62, file_version |-> CURRENT_FILE_VERSION,
        entry |-> WideDigits(classTag, 4096),
        program_header_offset |-> WideDigits(classTag, ehs),
        section_header_offset |-> WideDigits(classTag, 0),
        flags |-> Zeros(4), header_size |-> ehs, program_header_size |-> phs,
        program_header_count |-> 1, section_header_size |-> 0,
        section_header_count |-> 0, section_header_string_table_index |-> 0]

WellFormedHeader(classTag, encodingTag) ==
    EncodeHeader(classTag, encodingTag, WellFormedFields(classTag))

\* Field values no two bytes of which are equal, so that a field read at
\* another field's place, or in the other byte order, shows.
DistinctFields(classTag) ==
    LET w == IF classTag = CLASS32 THEN 4 ELSE 8
    IN [elf_type |-> 258, machine |-> 772, file_version |-> <<5, 6, 7, 8>>,
        entry |-> [i \in 1..w |-> 200 + i],
        program_header_offset |-> [i \in 1..w |-> 32 + i],
        section_header_offset |-> [i \in 1..w |-> 48 + i],
        flags |-> <<17, 18, 19, 20>>, header_size |-> 5398,
        program_header_size |-> 5912, program_header_count |-> 6426,
        section_header_size |-> 6940, section_header_count |-> 7454,
        section_header_string_table_index |-> 7968]

\* The field values the headers of the initial buffers are written from.
KnownFields(classTag) == {WellFormedFields(classTag), DistinctFields(classTag)}

\* Bytes that follow the header in the buffer.
Trailer(n) == [i \in 1..n |-> (37 * i) % 256]
TrailerLens == {0, 12}

ClassCaps == {Class32, Class64, Merge(Class32, Class64)}
\* The Merge types whose scalar bound holds (B's ClassUsize widens A's).
MergeCaps == {Merge(Class32, Class32), Merge(Class32, Class64), Merge(Class64, Class64)}

\* What the formatter of a held view has shown, and how many times it ran.
NoAcc == [n |-> 0, vals |-> <<>>]

NoRes == [op |-> "none", C |-> <<>>, E |-> "", arg |-> 0, out |-> Err(<<>>)]

Init ==
    /\ \E classTag \in {CLASS32, CLASS64}, encodingTag \in {LSB2, MSB2}, n \in TrailerLens :
           \/ /\ bytes = WellFormedHeader(classTag, encodingTag) \o Trailer(n)
              /\ pokes = 0
           \* A header of distinct bytes is parsed as it was written.
           \/ /\ n = 0
              /\ bytes = EncodeHeader(classTag, encodingTag, DistinctFields(classTag))
              /\ pokes = MaxPokes
    /\ res = NoRes
    /\ acc = NoAcc

SetByte(data, off, v) == [data EXCEPT ![off + 1] = v]

SetBytes(data, off, vs) ==
    [i \in 1..Len(data) |-> IF i > off /\ i <= off + Len(vs) THEN vs[i - off] ELSE data[i]]

\* The buffer is borrowed for as long as a view of it lives: it is edited
\* only while no result is held.
Edit(newBytes) ==
    /\ res = NoRes
    /\ pokes < MaxPokes
    /\ newBytes # bytes
    /\ bytes' = newBytes
    /\ pokes' = pokes + 1
    /\ res' = NoRes
    /\ UNCHANGED acc

\* The layout an editor of the buffer writes a header field in: the one its
\* class and encoding bytes name.
LayoutOffset(f) == IF At(bytes, 4) = CLASS32 THEN Elf32Header[f] ELSE Elf64Header[f]
LayoutHeaderSize == IF At(bytes, 4) = CLASS32 THEN Elf32HeaderSize ELSE Elf64HeaderSize
LayoutProgramHeaderSize ==
    IF At(bytes, 4) = CLASS32 THEN Elf32ProgramHeaderSize ELSE Elf64ProgramHeaderSize

SetMagic ==
    \E i \in {0, 3} : i < Len(bytes) /\ Edit(SetByte(bytes, i, 0))

SetClass ==
    \E t \in {CLASS32, CLASS64, 3} : Len(bytes) > 4 /\ Edit(SetByte(bytes, 4, t))

SetEncoding ==
    \E t \in {LSB2, MSB2, 3} : Len(bytes) > 5 /\ Edit(SetByte(bytes, 5, t))

SetVersion ==
    Len(bytes) > 6 /\ Edit(SetByte(bytes, 6, 2))

SetPadding ==
    \E i \in {9, 15} : i < Len(bytes) /\ Edit(SetByte(bytes, i, 1))

SetFileVersion ==
    /\ Len(bytes) >= 24
    /\ Edit(SetBytes(bytes, 20, EncodeDigits(At(bytes, 5), <<0, 0, 0, 2>>)))

SetHeaderSize ==
    \E v \in {LayoutHeaderSize - 1, LayoutHeaderSize + 1} :
        /\ Len(bytes) >= LayoutOffset("header_size") + 2
        /\ Edit(SetBytes(bytes, LayoutOffset("header_size"), EncodeU16(At(bytes, 5), v)))

SetProgramHeaderSize ==
    \E v \in {LayoutProgramHeaderSize - 1, LayoutProgramHeaderSize + 1} :
        /\ Len(bytes) >= LayoutOffset("program_header_size") + 2
        /\ Edit(SetBytes(bytes, LayoutOffset("program_header_size"),
                         EncodeU16(At(bytes, 5), v)))

\* The file declares no program header.
SetProgramHeaderCount ==
    /\ Len(bytes) >= LayoutOffset("program_header_count") + 2
    /\ Edit(SetBytes(bytes, LayoutOffset("program_header_count"), <<0, 0>>))

Truncate ==
    \E n \in {15, 16, LayoutHeaderSize - 1} :
        n < Len(bytes) /\ Edit(SubSeq(bytes, 1, n))

----------------------------------------------------------------------------
(* The constructor calls.                                                  *)

\* `arg` is the scalar argument of the call besides the buffer: a slice
\* length or an offset, 0 when the call has none.
CallWith(op, C, E, arg, out) ==
    /\ res = NoRes
    /\ res' = [op |-> op, C |-> C, E |-> E, arg |-> arg, out |-> out]
    /\ UNCHANGED <<bytes, pokes, acc>>

Call(op, C, E, out) == CallWith(op, C, E, 0, out)

CallNew ==
    \E C \in ClassCaps, E \in EncodingCaps : Call("new", C, E, new(C, E, bytes))

CallMinimalParse ==
    \E C \in ClassCaps, E \in EncodingCaps :
        Call("minimal_parse", C, E, minimal_parse(C, E, bytes))

CallParse ==
    \E C \in ClassCaps, E \in EncodingCaps : Call("parse", C, E, parse(C, E, bytes))

\* A program header entry view over the first n bytes of the buffer, n
\* about the entry size of the class.
ProgramHeaderLens(class) == IF class = Class32 THEN {31, 32, 33} ELSE {55, 56, 57}

CallProgramHeaderParse ==
    \E class \in {Class32, Class64}, encoding \in {LittleEndian, BigEndian} :
      \E n \in ProgramHeaderLens(class) :
        /\ n <= Len(bytes)
        /\ CallWith("program_header_parse", class, encoding, n,
                    program_header_parse(class, encoding, SubSeq(bytes, 1, n)))

\* C::from_elf_class on the class byte of the buffer.
CallFromElfClass ==
    \E C \in ClassCaps \cup MergeCaps :
        /\ Len(bytes) >= IDENT_SIZE
        /\ Call("from_elf_class", C, "", from_elf_class(C, ident_class(bytes)))

\* Merge<Class32, Class64>, resolved on the class byte of the buffer, decodes
\* a class-sized scalar of the buffer, unsigned or signed.
ScalarOffsets == {24, Len(bytes) - 8}

CallParseClassAt ==
    \E op \in {"parse_class_usize_at", "parse_class_isize_at"},
       encoding \in {LittleEndian, BigEndian}, offset \in ScalarOffsets :
        LET class == from_elf_class(Merge(Class32, Class64), At(bytes, 4))
        IN /\ offset >= 0
           /\ offset + 8 <= Len(bytes)
           /\ class.ok
           /\ CallWith(op, class.val, encoding, offset,
                       Ok(IF op = "parse_class_usize_at"
                              THEN parse_class_usize_at(class.val, encoding, offset, bytes)
                          ELSE parse_class_isize_at(class.val, encoding, offset, bytes)))

\* The held header view is formatted (a validated file hands out its view
\* with header() first): every accessor is called once.
CallFmt ==
    /\ res.op \in {"new", "minimal_parse", "parse"}
    /\ res.out.ok
    /\ acc.n < MaxReads
    /\ acc' = [n |-> acc.n + 1,
               vals |-> fmt(IF res.op = "parse" THEN header(res.out.val) ELSE res.out.val)]
    /\ UNCHANGED <<bytes, pokes, res>>

\* The caller lets go of the result (and of the view in it).
Drop ==
    /\ res # NoRes
    /\ res' = NoRes
    /\ acc' = NoAcc
    /\ UNCHANGED <<bytes, pokes>>

Next ==
    \/ Truncate
    \/ SetMagic
    \/ SetClass
    \/ SetEncoding
    \/ SetVersion
    \/ SetPadding
    \/ SetFileVersion
    \/ SetHeaderSize
    \/ SetProgramHeaderSize
    \/ SetProgramHeaderCount
    \/ CallNew
    \/ CallMinimalParse
    \/ CallParse
    \/ CallProgramHeaderParse
    \/ CallFromElfClass
    \/ CallParseClassAt
    \/ CallFmt
    \/ Drop

Spec == Init /\ [][Next]_vars

TypeOK ==
    /\ \A i \in 1..Len(bytes) : bytes[i] \in 0..255
    /\ pokes \in 0..MaxPokes
    /\ res.out.ok \in BOOLEAN
    /\ acc.n \in 0..MaxReads

----------------------------------------------------------------------------
(* What the claims speak of, read off the buffer itself.                   *)

\* The class tags a capability accepts.
RECURSIVE AcceptedClassTags(_)
AcceptedClassTags(C) ==
    IF C = Class32 THEN {CLASS32}
    ELSE IF C = Class64 THEN {CLASS64}
    ELSE AcceptedClassTags(C[2]) \cup AcceptedClassTags(C[3])

AcceptedEncodingTags(E) ==
    IF E = LittleEndian THEN {LSB2} ELSE IF E = BigEndian THEN {MSB2} ELSE {LSB2, MSB2}

\* The fixed-layout sizes of the class a tag names.
TagHeaderSize(t) == IF t = CLASS32 THEN 52 ELSE 64
TagProgramHeaderSize(t) == IF t = CLASS32 THEN 32 ELSE 56

\* The 16-bit value the buffer declares at `off`, in the byte order its
\* encoding byte names.
Declared16(b, off) ==
    IF b[6] = LSB2 THEN b[off + 1] + 256 * b[off + 2] ELSE 256 * b[off + 1] + b[off + 2]

DeclaredHeaderSize(b) == Declared16(b, IF b[5] = CLASS32 THEN 40 ELSE 52)
DeclaredProgramHeaderSize(b) == Declared16(b, IF b[5] = CLASS32 THEN 42 ELSE 54)

\* The buffer holds a whole header of the class its tag names, and the
\* capabilities C and E accept its tags.
Resolves(C, E, b) ==
    /\ Len(b) >= 16
    /\ b[5] \in AcceptedClassTags(C)
    /\ b[6] \in AcceptedEncodingTags(E)
    /\ Len(b) >= TagHeaderSize(b[5])

MagicOk(b) == b[1] = 127 /\ b[2] = 69 /\ b[3] = 76 /\ b[4] = 70
HeaderVersionOk(b) == b[7] = 1
PaddingOk(b) == \A i \in 8..16 : b[i] = 0
FileVersionOk(b) ==
    IF b[6] = LSB2 THEN <<b[21], b[22], b[23], b[24]>> = <<1, 0, 0, 0>>
    ELSE <<b[21], b[22], b[23], b[24]>> = <<0, 0, 0, 1>>
HeaderSizeOk(b) == DeclaredHeaderSize(b) >= TagHeaderSize(b[5])
ProgramHeaderSizeOk(b) == DeclaredProgramHeaderSize(b) >= TagProgramHeaderSize(b[5])

\* The error of the first check of steps 2..7 that fails, <<>> if none does.
FirstFailure(b) ==
    IF ~MagicOk(b) THEN <<"InvalidMagicBytes">>
    ELSE IF ~HeaderVersionOk(b) THEN <<"UnsupportedElfHeaderVersion">>
    ELSE IF ~PaddingOk(b) THEN <<"NonZeroPadding">>
    ELSE IF ~FileVersionOk(b) THEN <<"UnsupportedElfFileVersion">>
    ELSE IF ~HeaderSizeOk(b) THEN <<"InvalidElfHeaderSize">>
    ELSE IF ~ProgramHeaderSizeOk(b) THEN <<"InvalidProgramHeaderSize">>
    ELSE <<>>

\* How many of the checks of steps 2..7 fail.
Failures(b) ==
    Cardinality({i \in 1..6 :
        \/ i = 1 /\ ~MagicOk(b)
        \/ i = 2 /\ ~HeaderVersionOk(b)
        \/ i = 3 /\ ~PaddingOk(b)
        \/ i = 4 /\ ~FileVersionOk(b)
        \/ i = 5 /\ ~HeaderSizeOk(b)
        \/ i = 6 /\ ~ProgramHeaderSizeOk(b)})

\* The outcome of step 1 on the buffer, for the capabilities of the call.
Step1 == minimal_parse(res.C, res.E, bytes)

----------------------------------------------------------------------------
Panics(v) == \E i \in 1..Len(v) : v[i] < 0

HeaderFieldPanics(h, f) ==
    IF f \in HeaderUsizeFields \cup HeaderU32Fields THEN Panics(header_field(h, f))
    ELSE header_field(h, f) < 0

HeaderOps == {"new", "minimal_parse", "parse"}

----------------------------------------------------------------------------
(* C2: every view a constructor returns (a header view from new or         *)
(* minimal_parse, the view header() derives from a validated file, a       *)
(* program header entry view) is over at least as many bytes as the fixed  *)
(* layout of its class has, and no accessor of it reads outside them.      *)
C2_ViewsCoverLayout ==
    /\ res.op \in HeaderOps /\ res.out.ok =>
           LET h == header(res.out.val)
           IN /\ Len(h.bytes) >= (IF Leaf(h.class) = Class32 THEN 52 ELSE 64)
              /\ ~Panics(identifier(h))
              /\ \A f \in HeaderFields : ~HeaderFieldPanics(h, f)
    /\ res.op = "program_header_parse" /\ res.out.ok =>
           LET ph == res.out.val
           IN /\ Len(ph.bytes) >= (IF ph.class = Class32 THEN 32 ELSE 56)
              /\ \A f \in ProgramHeaderFields : ~Panics(program_header_field(ph, f))

\* A raw header view over a buffer of exactly the size of a 64-bit header.
C2_Witness ==
    /\ res.op = "new"
    /\ res.out.ok
    /\ Leaf(res.out.val.class) = Class64
    /\ Len(res.out.val.bytes) = 64
    /\ header_field(res.out.val, "section_header_string_table_index") >= 0

----------------------------------------------------------------------------
(* C3: on every buffer shorter than 16 bytes, new and minimal_parse both   *)
(* fail, and with a size error.                                            *)
C3_ShortBufferIsSizeError ==
    res.op \in {"new", "minimal_parse"} /\ Len(bytes) < 16 =>
        /\ ~res.out.ok
        /\ res.out.err \in {<<"TooSmall">>, <<"IdentError", <<"TooSmall">>>>}

\* A 15-byte buffer whose class byte no capability accepts, refused for its size.
C3_Witness ==
    /\ res.op = "new"
    /\ Len(bytes) = 15
    /\ bytes[5] = 3
    /\ res.out.err = <<"TooSmall">>

----------------------------------------------------------------------------
(* C4, as stated: on every buffer whose class tag the class capability     *)
(* does not accept, new and minimal_parse fail with UnsupportedClass       *)
(* carrying that tag.                                                      *)
C4_AsStated ==
    /\ res.op \in {"new", "minimal_parse"}
    /\ Len(bytes) > 4
    /\ bytes[5] \notin AcceptedClassTags(res.C)
    => /\ ~res.out.ok
       /\ res.out.err = <<"UnsupportedClass", bytes[5]>>

(* C4, amended: on every buffer of at least 16 bytes whose class tag the   *)
(* class capability does not accept, new fails with UnsupportedClass       *)
(* carrying exactly that tag, and so does minimal_parse whenever the       *)
(* identification block's own minimal validation accepts the buffer.       *)
C4_UnsupportedClassCarriesTag ==
    /\ res.op \in {"new", "minimal_parse"}
    /\ Len(bytes) >= 16
    /\ bytes[5] \notin AcceptedClassTags(res.C)
    /\ res.op = "minimal_parse" => ElfIdent_minimal_parse(bytes).ok
    => /\ ~res.out.ok
       /\ res.out.err = <<"UnsupportedClass", bytes[5]>>

\* A 64-bit file handed to a view that is generic over Class32 alone.
C4_Witness ==
    /\ res.op = "minimal_parse"
    /\ res.C = Class32
    /\ bytes[5] = CLASS64
    /\ res.out.err = <<"UnsupportedClass", CLASS64>>

----------------------------------------------------------------------------
(* C5, as stated: on every buffer one of whose magic bytes differs from    *)
(* 7F 'E' 'L' 'F', ElfFile::parse fails with InvalidMagicBytes.            *)
C5_AsStated ==
    res.op = "parse" /\ Len(bytes) >= 4 /\ ~MagicOk(bytes) =>
        ~res.out.ok /\ res.out.err = <<"InvalidMagicBytes">>

(* C5, amended: on every buffer on which the header construction of step 1 *)
(* succeeds and one of whose magic bytes differs from 7F 'E' 'L' 'F',      *)
(* ElfFile::parse fails with InvalidMagicBytes.                            *)
C5_BadMagicAfterStep1 ==
    res.op = "parse" /\ Step1.ok /\ ~MagicOk(bytes) =>
        ~res.out.ok /\ res.out.err = <<"InvalidMagicBytes">>

\* Only the last magic byte differs; nothing else is wrong with the file.
C5_Witness ==
    /\ res.op = "parse"
    /\ Step1.ok
    /\ bytes[4] # 70 /\ bytes[1] = 127 /\ bytes[2] = 69 /\ bytes[3] = 76
    /\ Failures(bytes) = 1
    /\ res.out.err = <<"InvalidMagicBytes">>

----------------------------------------------------------------------------
(* C6, as stated: on every buffer with a non-zero identification padding   *)
(* byte, ElfFile::parse fails with NonZeroPadding.                         *)
C6_AsStated ==
    res.op = "parse" /\ Len(bytes) >= 16 /\ ~PaddingOk(bytes) =>
        ~res.out.ok /\ res.out.err = <<"NonZeroPadding">>

(* C6, amended: on every buffer that passes steps 1 to 3 (header           *)
(* construction, magic, identification version) and has a non-zero         *)
(* identification padding byte, ElfFile::parse fails with NonZeroPadding,  *)
(* whatever the fields checked later hold.                                 *)
C6_NonZeroPaddingAfterStep3 ==
    /\ res.op = "parse"
    /\ Step1.ok
    /\ MagicOk(bytes)
    /\ HeaderVersionOk(bytes)
    /\ ~PaddingOk(bytes)
    => ~res.out.ok /\ res.out.err = <<"NonZeroPadding">>

\* The padding is the only thing wrong with the file.
C6_Witness ==
    /\ res.op = "parse"
    /\ Step1.ok
    /\ ~PaddingOk(bytes)
    /\ Failures(bytes) = 1
    /\ res.out.err = <<"NonZeroPadding">>

----------------------------------------------------------------------------
(* C7: on a buffer that passes identification validation, whose class and  *)
(* encoding the capabilities accept and that is as long as the class's     *)
(* header, minimal_parse fails with InvalidElfHeaderSize when the declared *)
(* header_size is below the class's header size and succeeds otherwise.    *)
C7_DeclaredHeaderSize ==
    /\ res.op = "minimal_parse"
    /\ ElfIdent_minimal_parse(bytes).ok
    /\ Resolves(res.C, res.E, bytes)
    => IF DeclaredHeaderSize(bytes) < TagHeaderSize(bytes[5])
           THEN ~res.out.ok /\ res.out.err = <<"InvalidElfHeaderSize">>
       ELSE res.out.ok

\* A header that declares one byte less than its class needs.
C7_Witness ==
    /\ res.op = "minimal_parse"
    /\ Resolves(res.C, res.E, bytes)
    /\ DeclaredHeaderSize(bytes) = TagHeaderSize(bytes[5]) - 1
    /\ res.out.err = <<"InvalidElfHeaderSize">>

----------------------------------------------------------------------------
(* C8: new succeeds on every buffer of at least 16 bytes and at least the  *)
(* class's header size whose class and encoding tags the capabilities      *)
(* accept, whatever its other bytes hold; the view is over that buffer.    *)
C8_RawChecksNoFieldValue ==
    res.op = "new" /\ Resolves(res.C, res.E, bytes) =>
        /\ res.out.ok
        /\ res.out.val.bytes = bytes

\* A raw view of a file with a wrong magic and too small a declared header_size.
C8_Witness ==
    /\ res.op = "new"
    /\ res.out.ok
    /\ ~MagicOk(bytes)
    /\ ~HeaderSizeOk(bytes)

----------------------------------------------------------------------------
(* C9: a declared header_size above the class's header size is no reason   *)
(* for minimal_parse or ElfFile::parse to refuse, nor is a declared        *)
(* program header entry size above the class's entry size for              *)
(* ElfFile::parse; and the fields of an entry view over a slice longer     *)
(* than the class's entry size are those of its first entry-size bytes.    *)
C9_LargerSizesAccepted ==
    /\ /\ res.op \in {"minimal_parse", "parse"}
       /\ Step1.ok \/ Step1.err = <<"InvalidElfHeaderSize">>
       /\ DeclaredHeaderSize(bytes) > TagHeaderSize(bytes[5])
       => /\ res.out.err # <<"InvalidElfHeaderSize">>
          /\ res.op = "minimal_parse" => res.out.ok
    /\ /\ res.op = "parse"
       /\ Step1.ok
       /\ DeclaredProgramHeaderSize(bytes) > TagProgramHeaderSize(bytes[5])
       => /\ res.out.err # <<"InvalidProgramHeaderSize">>
          /\ res.out.ok <=> /\ MagicOk(bytes) /\ HeaderVersionOk(bytes) /\ PaddingOk(bytes)
                            /\ FileVersionOk(bytes)
    /\ res.op = "program_header_parse" /\ res.out.ok =>
           LET ph == res.out.val
               n == IF ph.class = Class32 THEN 32 ELSE 56
               head == [ph EXCEPT !.bytes = SubSeq(ph.bytes, 1, n)]
           IN \A f \in ProgramHeaderFields :
                  /\ program_header_field(ph, f) = program_header_field(head, f)
                  /\ ~Panics(program_header_field(ph, f))

\* A file that declares both sizes one above the minimum, and is accepted.
C9_Witness ==
    /\ res.op = "parse"
    /\ res.out.ok
    /\ DeclaredHeaderSize(bytes) > TagHeaderSize(bytes[5])
    /\ DeclaredProgramHeaderSize(bytes) > TagProgramHeaderSize(bytes[5])

----------------------------------------------------------------------------
(* C10: Merge<A, B>::from_elf_class yields the A variant for every tag A   *)
(* accepts, also when B accepts it; otherwise what B yields: the B variant *)
(* or B's UnsupportedClass.  A header over Merge<Class32, Class64> holds   *)
(* the A variant for a 32-bit file and the B variant for a 64-bit file.    *)
C10_MergeTriesAFirst ==
    /\ res.op = "from_elf_class" /\ IsMerge(res.C) =>
           LET A == res.C[2]
               B == res.C[3]
               tag == bytes[5]
           IN IF tag \in AcceptedClassTags(A)
                  THEN res.out.ok /\ res.out.val = <<"A", A, res.C>>
              ELSE IF tag \in AcceptedClassTags(B)
                  THEN res.out.ok /\ res.out.val = <<"B", B, res.C>>
              ELSE ~res.out.ok /\ res.out.err = <<"UnsupportedClass", tag>>
    /\ res.op \in HeaderOps /\ res.C = Merge(Class32, Class64) /\ res.out.ok =>
           res.out.val.class = (IF bytes[5] = CLASS32
                                    THEN <<"A", Class32, res.C>>
                                ELSE <<"B", Class64, res.C>>)

\* Both operands accept the tag and the first one wins.
C10_Witness ==
    /\ res.op = "from_elf_class"
    /\ res.C = Merge(Class32, Class32)
    /\ bytes[5] = CLASS32
    /\ res.out.val[1] = "A"

----------------------------------------------------------------------------
(* The scalars of the buffer, read byte by byte.                           *)

\* The digits of the `width`-byte scalar of b at `off`, most significant
\* first, in the byte order `encoding`.
DeclaredDigits(b, encoding, off, width) ==
    [i \in 1..width |-> IF encoding = BigEndian THEN b[off + i] ELSE b[off + width + 1 - i]]

\* A 32-bit value in 64 bits: zero-extended, and sign-extended.
ZeroExtended(d) == <<0, 0, 0, 0>> \o d
SignExtended(d) == (IF d[1] >= 128 THEN <<255, 255, 255, 255>> ELSE <<0, 0, 0, 0>>) \o d

\* What the arm matching the class byte of the buffer decodes at `off`, in
\* the 64-bit representation.
ArmUnsigned(b, encoding, off) ==
    IF b[5] = CLASS32 THEN ZeroExtended(DeclaredDigits(b, encoding, off, 4))
    ELSE DeclaredDigits(b, encoding, off, 8)

ArmSigned(b, encoding, off) ==
    IF b[5] = CLASS32 THEN SignExtended(DeclaredDigits(b, encoding, off, 4))
    ELSE DeclaredDigits(b, encoding, off, 8)

----------------------------------------------------------------------------
(* C11: a Merge<Class32, Class64> value behaves as the arm matching the    *)
(* class byte, in the 64-bit representation: every header field offset and *)
(* the expected header size are the arm's; a class-sized unsigned value is *)
(* the 32-bit arm's value zero-extended, a class-sized signed value is the *)
(* 32-bit arm's value sign-extended, and under the 64-bit arm both are the *)
(* 64-bit arm's own value.                                                 *)
C11_MergeIsMatchedArm ==
    /\ (res.op \in HeaderOps /\ res.C = Merge(Class32, Class64) /\ res.out.ok) =>
           LET h == res.out.val
               arm32 == bytes[5] = CLASS32
           IN /\ expected_elf_header_size(h.class)
                     = (IF arm32 THEN Elf32HeaderSize ELSE Elf64HeaderSize)
              /\ \A f \in HeaderFields :
                     header_offset(h.class, f)
                         = (IF arm32 THEN Elf32Header[f] ELSE Elf64Header[f])
              /\ \A f \in HeaderUsizeFields :
                     header_field(h, f)
                         = ArmUnsigned(bytes, h.encoding,
                                       IF arm32 THEN Elf32Header[f] ELSE Elf64Header[f])
    /\ res.op = "parse_class_usize_at" =>
           res.out.val = ArmUnsigned(bytes, res.E, res.arg)
    /\ res.op = "parse_class_isize_at" =>
           res.out.val = ArmSigned(bytes, res.E, res.arg)

\* The 32-bit arm has decoded a negative value.
C11_Witness ==
    /\ res.op = "parse_class_isize_at"
    /\ bytes[5] = CLASS32
    /\ DeclaredDigits(bytes, res.E, res.arg, 4)[1] >= 128
    /\ res.out.val = <<255, 255, 255, 255>> \o DeclaredDigits(bytes, res.E, res.arg, 4)

----------------------------------------------------------------------------
(* C12: the fields of a program header entry lie at fixed offsets that     *)
(* depend on the class. 32-bit: type 0, file_offset 4, virtual_address 8,  *)
(* physical_address 12, file_size 16, memory_size 20, flags 24, alignment  *)
(* 28, entry size 32. 64-bit: type 0, flags 4, file_offset 8,              *)
(* virtual_address 16, physical_address 24, file_size 32, memory_size 40,  *)
(* alignment 48, entry size 56. Type and flags are 32-bit in both, the     *)
(* other fields class-sized.                                               *)
C12_Offsets(class) ==
    IF class = Class32
        THEN [segment_type |-> 0, file_offset |-> 4, virtual_address |-> 8,
              physical_address |-> 12, file_size |-> 16, memory_size |-> 20,
              flags |-> 24, alignment |-> 28]
    ELSE [segment_type |-> 0, flags |-> 4, file_offset |-> 8, virtual_address |-> 16,
          physical_address |-> 24, file_size |-> 32, memory_size |-> 40,
          alignment |-> 48]

C12_Width(class, f) ==
    IF f \in {"segment_type", "flags"} \/ class = Class32 THEN 4 ELSE 8

C12_ProgramHeaderLayout ==
    res.op = "program_header_parse" =>
        /\ expected_program_header_size(res.C) = (IF res.C = Class32 THEN 32 ELSE 56)
        /\ res.out.ok =>
               \A f \in ProgramHeaderFields :
                   program_header_field(res.out.val, f)
                       = DeclaredDigits(bytes, res.E, C12_Offsets(res.C)[f],
                                        C12_Width(res.C, f))

\* A 64-bit entry whose flags, at offset 4, are not what lies at offset 24.
C12_Witness ==
    /\ res.op = "program_header_parse"
    /\ res.C = Class64
    /\ res.out.ok
    /\ program_header_field(res.out.val, "flags") = DeclaredDigits(bytes, res.E, 4, 4)
    /\ DeclaredDigits(bytes, res.E, 4, 4) # DeclaredDigits(bytes, res.E, 24, 4)

----------------------------------------------------------------------------
(* C13: for each of the four class and encoding combinations, a header     *)
(* written from known field values in its canonical on-disk layout parses  *)
(* to a view whose accessors return those values, for every logical field. *)

\* A field value as a number or as 64-bit digits, whatever its width.
C13_Value(f, v) ==
    IF f \in HeaderUsizeFields \cup HeaderU32Fields THEN Zeros(8 - Len(v)) \o v ELSE v

C13_RoundTrip ==
    (res.op \in HeaderOps /\ res.out.ok) =>
        \A classTag \in {CLASS32, CLASS64} \cap {bytes[5]},
           encodingTag \in {LSB2, MSB2} \cap {bytes[6]} :
            \A fv \in KnownFields(classTag) :
                bytes = EncodeHeader(classTag, encodingTag, fv) =>
                    \A f \in HeaderFields :
                        C13_Value(f, header_field(header(res.out.val), f))
                            = C13_Value(f, fv[f])

\* A big-endian 32-bit header of distinct bytes, read back through a view.
C13_Witness ==
    /\ res.op = "new"
    /\ res.out.ok
    /\ bytes = EncodeHeader(CLASS32, MSB2, DistinctFields(CLASS32))
    /\ header_field(res.out.val, "section_header_offset") = <<49, 50, 51, 52>>
    /\ header_field(res.out.val, "machine") = 772

----------------------------------------------------------------------------
(* C14: the accessors of a header view and ElfFile::header are pure reads: *)
(* a read leaves the buffer and the stored (buffer, class, encoding)       *)
(* triple as they were, a repeated read returns the values of the read     *)
(* before it, and the values read off a view, the one header() derives     *)
(* from a validated file included, are those of the header that            *)
(* construction checked: the fields the buffer declares.                   *)

\* The value the buffer declares for field f, in the layout and byte order
\* its class and encoding bytes name; class-sized and 32-bit values as
\* 64-bit digits.
C14_Declared(b, f) ==
    LET off == IF b[5] = CLASS32 THEN Elf32Header[f] ELSE Elf64Header[f]
        order == IF b[6] = MSB2 THEN BigEndian ELSE LittleEndian
        width == IF f \in HeaderU32Fields \/ b[5] = CLASS32 THEN 4 ELSE 8
    IN IF f \in HeaderUsizeFields \cup HeaderU32Fields
           THEN C13_Value(f, DeclaredDigits(b, order, off, width))
       ELSE Declared16(b, off)

C14_ReadsAreDeclared ==
    acc.n > 0 =>
        /\ res.out.val.bytes = bytes
        /\ \A f \in HeaderFields : C13_Value(f, acc.vals[f]) = C14_Declared(bytes, f)
        /\ res.op = "parse" =>
               /\ acc.vals["file_version"] = <<0, 0, 0, 1>>
               /\ acc.vals["header_size"] >= TagHeaderSize(bytes[5])
               /\ acc.vals["program_header_size"] >= TagProgramHeaderSize(bytes[5])

C14_ReadStep ==
    acc'.n > 0 =>
        /\ bytes' = bytes
        /\ res' = res
        /\ acc.n > 0 => acc'.vals = acc.vals

C14_PureReads == []C14_ReadsAreDeclared /\ [][C14_ReadStep]_vars

\* A validated big-endian file has been read twice through header().
C14_Witness ==
    /\ res.op = "parse"
    /\ res.out.ok
    /\ bytes[6] = MSB2
    /\ acc.n = 2
    /\ acc.vals["machine"] = 62

----------------------------------------------------------------------------
(* C15: Scenario A. A 64-bit little-endian buffer with magic 7F 45 4C 46,  *)
(* class 2, encoding 1, version 1, zero padding, elf_type 2, machine 62,   *)
(* file_version 1, header_size 64, program_header_size 56 and              *)
(* program_header_count 1 validates, and the view header() gives reports   *)
(* elf_type Executable (2) and machine X86_64 (62).                        *)
C15_IsScenarioA(b) ==
    /\ Len(b) >= 64
    /\ SubSeq(b, 1, 16) = <<127, 69, 76, 70, 2, 1, 1, 0, 0, 0, 0, 0, 0, 0, 0, 0>>
    /\ SubSeq(b, 17, 24) = <<2, 0, 62, 0, 1, 0, 0, 0>>
    /\ SubSeq(b, 53, 58) = <<64, 0, 56, 0, 1, 0>>

C15_ScenarioA ==
    (/\ res.op = "parse"
     /\ C15_IsScenarioA(bytes)
     /\ CLASS64 \in AcceptedClassTags(res.C)
     /\ LSB2 \in AcceptedEncodingTags(res.E)) =>
        /\ res.out.ok
        /\ EXECUTABLE = 2
        /\ X86_64 = 62
        /\ header_field(header(res.out.val), "elf_type") = EXECUTABLE
        /\ header_field(header(res.out.val), "machine") = X86_64

C15_Witness ==
    /\ res.op = "parse"
    /\ res.C = Class64
    /\ res.E = LittleEndian
    /\ C15_IsScenarioA(bytes)
    /\ Len(bytes) = 64
    /\ res.out.ok
    /\ fmt(header(res.out.val))["elf_type"] = 2

----------------------------------------------------------------------------
(* C16: a program header entry view is constructed exactly when the slice  *)
(* is at least as long as the entry size of the class (32 or 56); a        *)
(* shorter slice gives none. The view holds the class, the encoding and    *)
(* the slice it was given, and nothing else of the slice is looked at.     *)
C16_EntryViewIffLongEnough ==
    res.op = "program_header_parse" =>
        /\ res.out.ok <=> res.arg >= TagProgramHeaderSize(IF res.C = Class32 THEN CLASS32
                                                          ELSE CLASS64)
        /\ res.out.ok =>
               /\ res.out.val.class = res.C
               /\ res.out.val.encoding = res.E
               /\ res.out.val.bytes = SubSeq(bytes, 1, res.arg)
        /\ ~res.out.ok => res.out.err = <<"None">>

\* A slice of exactly the 64-bit entry size whose bytes are no header at
\* all, and in the other byte order, still gives a view.
C16_Witness ==
    /\ res.op = "program_header_parse"
    /\ res.C = Class64
    /\ res.arg = 56
    /\ ~MagicOk(bytes)
    /\ bytes[5] = 3
    /\ res.out.ok
    /\ Len(res.out.val.bytes) = 56

----------------------------------------------------------------------------
(* C17: the section header entry size is not checked: ElfFile::parse never *)
(* returns InvalidSectionHeaderSize, and its outcome does not depend on    *)
(* the section_header_size, section_header_count or section_header_offset *)
(* the buffer declares.                                                    *)

\* Where the buffer holds its three section header fields, and how wide
\* they are, in the layout its class byte names.
C17_SectionFields(b) ==
    IF At(b, 4) = CLASS32 THEN {<<32, 4>>, <<46, 2>>, <<48, 2>>}
    ELSE {<<40, 8>>, <<58, 2>>, <<60, 2>>}

\* The buffer with one of its section header fields, or all three, filled
\* with the byte v.
C17_Variants(b) ==
    {SetBytes(b, fw[1], [i \in 1..fw[2] |-> v]) : fw \in C17_SectionFields(b), v \in {1, 255}}
    \cup {[i \in 1..Len(b) |->
              IF \E fw \in C17_SectionFields(b) : i > fw[1] /\ i <= fw[1] + fw[2]
                  THEN v ELSE b[i]] : v \in {0, 255}}

C17_Outcome(out) ==
    IF out.ok THEN <<"Ok", out.val.class, out.val.encoding>> ELSE <<"Err", out.err>>

----------------------------------------------------------------------------
(* C18: a constructor wraps the error of the step that failed under it     *)
(* without loss: the error it returns names the variant of the lower-level *)
(* error and carries its payload, the raw tag, so that the lower-level     *)
(* error can be read back from it and no two of them become one. Raw and   *)
(* MinimalParse construction wrap the errors of class and encoding         *)
(* resolution, MinimalParse construction also that of the identification   *)
(* block; ElfFile::parse converts the TooSmall, UnsupportedClass,          *)
(* UnsupportedEncoding and InvalidElfHeaderSize of header construction.    *)

\* The error of the first lower-level step of header construction that
\* fails on the buffer, <<>> if none does: the identification block's own
\* (MinimalParse only), else that of class resolution, else that of
\* encoding resolution.
C18_LowerError(op, C, E, b) ==
    IF op = "minimal_parse" /\ ~ElfIdent_minimal_parse(b).ok
        THEN <<"ParseElfIdentMinimalError", ElfIdent_minimal_parse(b).err>>
    ELSE IF Len(b) < 16 THEN <<>>
    ELSE IF b[5] \notin AcceptedClassTags(C) THEN <<"UnsupportedClassError", b[5]>>
    ELSE IF b[6] \notin AcceptedEncodingTags(E) THEN <<"UnsupportedEncodingError", b[6]>>
    ELSE <<>>

\* The lower-level error read back from the error of header construction.
C18_UnwrapHeaderError(e) ==
    IF e[1] = "IdentError" THEN <<"ParseElfIdentMinimalError", e[2]>>
    ELSE IF e[1] = "UnsupportedClass" THEN <<"UnsupportedClassError", e[2]>>
    ELSE IF e[1] = "UnsupportedEncoding" THEN <<"UnsupportedEncodingError", e[2]>>
    ELSE <<>>

\* The header construction error read back from the error of ElfFile::parse.
C18_UnwrapFileError(e) ==
    IF e = <<"TooSmallForHeader">> THEN <<"TooSmall">> ELSE e

----------------------------------------------------------------------------
(* C19: ElfFile::parse asks for a declared program header entry size of at *)
(* least the entry size of the class whatever else the file declares: a    *)
(* buffer that passes the checks before it and declares a smaller entry    *)
(* size is rejected with InvalidProgramHeaderSize, be its                  *)
(* program_header_count zero or not, and whatever its                      *)
(* program_header_offset.                                                  *)

\* The buffer with its program_header_offset or its program_header_count
\* filled with the byte v.
C19_Variants(b) ==
    {SetBytes(b, fw[1], [i \in 1..fw[2] |-> v]) :
        fw \in (IF At(b, 4) = CLASS32 THEN {<<28, 4>>, <<44, 2>>} ELSE {<<32, 8>>, <<56, 2>>}),
        v \in {0, 1, 255}}

C19_EntrySizeAlwaysChecked ==
    (/\ res.op = "parse"
     /\ Resolves(res.C, res.E, bytes)
     /\ MagicOk(bytes) /\ HeaderVersionOk(bytes) /\ PaddingOk(bytes)
     /\ FileVersionOk(bytes) /\ HeaderSizeOk(bytes)
     /\ ~ProgramHeaderSizeOk(bytes)) =>
        /\ res.out = Err(<<"InvalidProgramHeaderSize">>)
        /\ \A b \in C19_Variants(bytes) :
               parse(res.C, res.E, b) = Err(<<"InvalidProgramHeaderSize">>)

\* A file that declares no program header is rejected for the entry size
\* it declares.
C19_Witness ==
    /\ res.op = "parse"
    /\ res.out = Err(<<"InvalidProgramHeaderSize">>)
    /\ Declared16(bytes, IF bytes[5] = CLASS32 THEN 44 ELSE 56) = 0
    /\ DeclaredProgramHeaderSize(bytes) = TagProgramHeaderSize(bytes[5]) - 1

----------------------------------------------------------------------------
(* C20: Raw construction checks, in this order: the buffer has at least 16 *)
(* bytes (else TooSmall), the class tag is one the class capability        *)
(* accepts (else UnsupportedClass), the encoding tag is one the encoding   *)
(* capability accepts (else UnsupportedEncoding), the buffer has at least  *)
(* the header size of the class (else TooSmall). So a buffer of 16 bytes   *)
(* or more that is shorter than a header and has an unrecognized class     *)
(* fails with UnsupportedClass, and so does one whose class and encoding   *)
(* are both unrecognized.                                                  *)
C20_RawCheckOrder ==
    res.op = "new" =>
        IF Len(bytes) < 16 THEN res.out = Err(<<"TooSmall">>)
        ELSE IF bytes[5] \notin AcceptedClassTags(res.C)
            THEN res.out = Err(<<"UnsupportedClass", bytes[5]>>)
        ELSE IF bytes[6] \notin AcceptedEncodingTags(res.E)
            THEN res.out = Err(<<"UnsupportedEncoding", bytes[6]>>)
        ELSE IF Len(bytes) < TagHeaderSize(bytes[5]) THEN res.out = Err(<<"TooSmall">>)
        ELSE res.out.ok

\* Class and encoding are both unrecognized: the class is reported.
C20_Witness ==
    /\ res.op = "new"
    /\ Len(bytes) >= 16
    /\ bytes[5] = 3
    /\ bytes[6] = 3
    /\ res.out = Err(<<"UnsupportedClass", 3>>)

----------------------------------------------------------------------------
----------------------------------------------------------------------------
(* C22: acceptance is monotone across the parse depths. With the same      *)
(* class and encoding capabilities, a buffer ElfFile::parse accepts is     *)
(* accepted by minimal_parse, and a buffer minimal_parse accepts is        *)
(* accepted by new; the deeper and the shallower result hold the same      *)
(* class and encoding and give the same value for every header field.      *)

\* The views a and b are of the same class and encoding and agree on every
\* header field.
C22_SameHeader(a, b) ==
    /\ a.class = b.class
    /\ a.encoding = b.encoding
    /\ \A f \in HeaderFields : header_field(a, f) = header_field(b, f)

C22_AcceptanceMonotone ==
    /\ (res.op = "parse" /\ res.out.ok) =>
           LET shallower == minimal_parse(res.C, res.E, bytes)
           IN shallower.ok /\ C22_SameHeader(header(res.out.val), shallower.val)
    /\ (res.op = "minimal_parse" /\ res.out.ok) =>
           LET shallower == new(res.C, res.E, bytes)
           IN shallower.ok /\ C22_SameHeader(res.out.val, shallower.val)

\* A 32-bit file followed by other bytes, accepted at MinimalParse depth
\* through Merge, and so at Raw depth.
C22_Witness ==
    /\ res.op = "minimal_parse"
    /\ res.C = Merge(Class32, Class64)
    /\ res.out.ok
    /\ bytes[5] = CLASS32
    /\ Len(bytes) > 52
    /\ new(res.C, res.E, bytes).ok
    /\ new(res.C, res.E, bytes).val.class = MergeA(Class32, Class32, Class64)

----------------------------------------------------------------------------
(* C23: ElfFile::parse relates nothing the file declares to the length of  *)
(* the buffer: a buffer of exactly the header size of its class that       *)
(* passes every check is accepted also when the header_size it declares    *)
(* is beyond its length, and when program_header_offset +                  *)
(* program_header_count * program_header_size is; a validated file need    *)
(* not hold its program header table.                                      *)

\* The buffer with its header_size, its program_header_offset, its
\* program_header_size or its program_header_count at the largest value
\* the field holds.
C23_Variants(b) ==
    {SetBytes(b, fw[1], [i \in 1..fw[2] |-> 255]) :
        fw \in (IF At(b, 4) = CLASS32 THEN {<<40, 2>>, <<28, 4>>, <<42, 2>>, <<44, 2>>}
                ELSE {<<52, 2>>, <<32, 8>>, <<54, 2>>, <<56, 2>>})}

C23_NothingTiedToLength ==
    (/\ res.op = "parse"
     /\ ElfIdent_minimal_parse(bytes).ok
     /\ Resolves(res.C, res.E, bytes)
     /\ FirstFailure(bytes) = <<>>) =>
        /\ res.out.ok
        /\ \A b \in C23_Variants(bytes) : parse(res.C, res.E, b).ok

\* A validated buffer of exactly the header's size: the header_size it
\* declares is one more than it has, and its one program header starts
\* where the buffer ends.
C23_Witness ==
    /\ res.op = "parse"
    /\ res.out.ok
    /\ Len(bytes) = TagHeaderSize(bytes[5])
    /\ DeclaredHeaderSize(bytes) = Len(bytes) + 1
    /\ C14_Declared(bytes, "program_header_offset") = Zeros(7) \o <<Len(bytes)>>
    /\ Declared16(bytes, IF bytes[5] = CLASS32 THEN 44 ELSE 56) = 1
    /\ DeclaredProgramHeaderSize(bytes) >= 32

====
